---- MODULE Spec2Model ----
(***************************************************************************)
(* CGRtools/files/SDFrw.py: the SDF record stream SDFRead (a generator     *)
(* driven by next/send, with seek and tell over a table of byte offsets).  *)
(*                                                                         *)
(* A file is a sequence of lines.  A line is represented by its kind,      *)
(* which fixes everything the reader asks of its text (startswith("$$$$"), *)
(* 'V2000' in line, the answer of the block parser, ...), and by its       *)
(* number in the file, which stands for its text: the title, the mol block *)
(* and the metadata values of an output are the numbers of the lines they  *)
(* were taken from.                                                        *)
(***************************************************************************)
EXTENDS Integers, Sequences, FiniteSets, TLC

VARIABLES
    lines,           \* the file: a sequence of line kinds
    eol,             \* whether the last line of the file ends with a newline
    layout,          \* how the file was put together: [recs, tail]
    mode,            \* "indexed" (real file, indexable=True), "plain", "pipe"
    shifts,          \* self._shifts, << >> when there is no index
    fpos,            \* position of self._file, in bytes
    data,            \* self._data: the suspended generator __reader
    already_seeked,  \* self.__already_seeked
    last,            \* the last call of the driver and its result
    out,             \* values yielded to next() since the last seek call
    wkind,           \* the writer class: "SDFWrite" or "ESDFWrite", "" when none
    wfile,           \* the text the writer has written to its file
    wlast,           \* the objects passed to write, in call order
    parsed,          \* what SDFRead yields on the file the writer has written
    cgr_type,        \* CGRpreparer: the integers of the cgr_type string
    extralabels,     \* CGRpreparer: self.__extralabels
    condensed        \* CGRpreparer: the call of condense made last and its result

input == <<lines, eol, layout, mode>>
reader == <<shifts, fpos, data, already_seeked, last, out>>
writer == <<wkind, wfile, wlast, parsed>>
preparer == <<cgr_type, extralabels, condensed>>
vars == <<lines, eol, layout, mode, shifts, fpos, data, already_seeked, last, out,
          wkind, wfile, wlast, parsed, cgr_type, extralabels, condensed>>

\* records of a file read from start to end
MaxRecords == 3

\* records of a file the driver seeks in
MaxSeekRecords == 2

\* messages the log buffer may hold for seek still to be called
MaxLog == 1

None == -1

\* no CGRpreparer is constructed
NoPreparer ==
    /\ cgr_type = << >>
    /\ extralabels = FALSE
    /\ condensed = << >>

-----------------------------------------------------------------------------
(* Lines *)

Kinds == {"hdr", "blank", "V2000", "V2000e", "V3000", "atom", "bad", "end", "endx",
          ">a", ">b", ">", "val", "x$$$$", "$$$$"}

\* line.startswith("$$$$")
StartsWithDelim(k) == k = "$$$$"

\* grep -E '\$\$\$\$': the line contains the four characters anywhere
ContainsDelim(k) == k \in {"$$$$", "x$$$$"}

\* 'V2000' in line, 'V3000' in line
HasV2000(k) == k \in {"V2000", "V2000e"}
HasV3000(k) == k = "V3000"

\* MOLRead(line, ...) raises EmptyMolecule: a counts line with no atoms
EmptyMol(k) == k = "V2000e"

\* match(head, line): the key of a metadata header, "" when the line is none
HeadKey(k) == IF k = ">a" THEN "a" ELSE IF k = ">b" THEN "b" ELSE ""
IsHead(k) == k \in {">a", ">b", ">"}

\* len(text) of a line of each kind, without its newline
TextLen(k) ==
    CASE k = "blank" -> 0
      [] k \in {"hdr", "val", "bad"} -> 3
      [] k \in {"atom", "$$$$"} -> 4
      [] k \in {"V2000", "V3000", "x$$$$"} -> 5
      [] OTHER -> 6

\* line.strip(): 0 is the empty string, otherwise the text of line i
Strip(i) == IF lines[i] = "blank" THEN 0 ELSE i

\* The block parser (MOLRead / EMOLRead), called with one line: "more"
\* (returns False), "done" (returns True) or "fail" (raises ValueError).
Parse(k) ==
    CASE k \in {"atom", "blank"} -> "more"
      [] k \in {"end", "endx"}   -> "done"
      [] OTHER                   -> "fail"

\* self._convert_structure(record) raises ValueError
ConvertFails(record) == lines[record.mol[Len(record.mol)]] = "endx"

-----------------------------------------------------------------------------
(* The file as bytes *)

NLines == Len(lines)

\* bytes of line i as readline returns it
LineLen(i) == TextLen(lines[i]) + (IF i = NLines /\ ~eol THEN 0 ELSE 1)

RECURSIVE LineFrom(_, _, _)
LineFrom(i, start, p) ==
    IF i > NLines THEN 0
    ELSE IF start = p THEN i
    ELSE LineFrom(i + 1, start + LineLen(i), p)

\* the line self._file.readline() returns at byte position p: the line that
\* starts there, 0 when p is at or past the end of the file
LineAt(p) == LineFrom(1, 0, p)

RECURSIVE ShiftsFrom(_, _, _)
ShiftsFrom(i, start, acc) ==
    IF i > NLines THEN acc
    ELSE ShiftsFrom(i + 1, start + LineLen(i),
            IF ContainsDelim(lines[i])
            THEN Append(acc, start + TextLen(lines[i]) + 1)
            ELSE acc)

\* SDFRead._get_shifts: grep -b prints "offset:line\n" for every matching
\* line, the newline added even when the file's last line has none
GetShifts == ShiftsFrom(1, 0, <<0>>)

-----------------------------------------------------------------------------
(* The generator SDFRead.__reader *)

Seekable == mode # "pipe"

EmptyMeta == [k \in {} |-> << >>]

\* MetaAppend with the list of the key replaced by the new value
MetaAppendReplace(meta, k, d) ==
    (k :> <<d>>) @@ meta

\* meta[mkey].append(data) on a defaultdict(list)
MetaAppend(meta, k, d) ==
    IF k \in DOMAIN meta
    THEN [meta EXCEPT ![k] = Append(@, d)]
    ELSE (k :> <<d>>) @@ meta

\* the generator right after its creation, before the first next();
\* the log buffer belongs to the reader object and is handed over
NewReader(log) ==
    [pc |-> "new", im |-> 3, failkey |-> FALSE, parser |-> FALSE, mol |-> << >>,
     record |-> << >>, mkey |-> "", meta |-> EmptyMeta, title |-> 0,
     seek |-> None, pos |-> None, count |-> 0, log |-> log]

\* what a resumption of the generator hands back
YNone == [t |-> "none"]
YStop == [t |-> "stop"]
parse_error(count, pos, log, meta) ==
    [t |-> "err", count |-> count, pos |-> pos, log |-> log, meta |-> meta]
Container(record, title, meta, log) ==
    [t |-> "obj", mol |-> record.mol, title |-> title, meta |-> meta, log |-> log]

\* DelimiterTail with line 177 (im = 3) left out
DelimiterTailKeepsPhase(g, p) ==
    [g EXCEPT !.pos = IF Seekable THEN p ELSE @,
              !.count = @ + 1,
              !.failkey = FALSE,
              !.mkey = "",
              !.meta = EmptyMeta]

\* lines 174-180: the bookkeeping at a delimiter line, p = file.tell()
DelimiterTail(g, p) ==
    [g EXCEPT !.pos = IF Seekable THEN p ELSE @,
              !.count = @ + 1,
              !.im = 3,
              !.failkey = FALSE,
              !.mkey = "",
              !.meta = EmptyMeta]

\* lines 171-180
AfterRecord(g, p) ==
    DelimiterTail([g EXCEPT !.log = << >>, !.record = << >>], p)

\* lines 142-147 and 215-220: an injected target after a ParseError
RestartAfterError(g, p) ==
    [g EXCEPT !.count = g.seek,
              !.pos = p,
              !.im = 3,
              !.mkey = "",
              !.meta = EmptyMeta,
              !.log = << >>]

\* store_log, as MDLRead sets it when the caller does not
StoreLog == FALSE

\* self._ignore
Ignore == layout.ignore

\* FormatFails with the empty molecule failing whatever self._ignore is
FormatFailsStrict(k) ==
    IF HasV2000(k) THEN EmptyMol(k) ELSE ~HasV3000(k)

\* lines 196-209: the try block on the format line raises ValueError
\* (EmptyMolecule raised again at 205 is caught at 210 as one)
FormatFails(k) ==
    IF HasV2000(k) THEN EmptyMol(k) /\ ~Ignore ELSE ~HasV3000(k)

\* lines 152-166 and 226-242: finalize the record, the value to yield
Finalize(g) ==
    LET record == g.record[1]
        meta == g.meta
    IN  IF ConvertFails(record)
        THEN parse_error(g.count, g.pos, Append(g.log, <<"record", 0>>), meta)
        ELSE Container(record, IF g.title # 0 THEN g.title ELSE None, meta,
                       IF StoreLog /\ g.log # << >> THEN g.log ELSE << >>)

\* ReaderEnd with the generator parked at its initial stop, not returned
ReaderEndParked(g, p) ==
    [g |-> [g EXCEPT !.pc = "init", !.record = << >>], fpos |-> p, y |-> YStop]

\* lines 225-242: the source is exhausted
ReaderEnd(g, p) ==
    IF g.record # << >>
    THEN [g |-> [g EXCEPT !.pc = "final", !.log = << >>], fpos |-> p, y |-> Finalize(g)]
    ELSE [g |-> [g EXCEPT !.pc = "done"], fpos |-> p, y |-> YStop]

\* HeaderLine with the title taken when the countdown is at 1
HeaderLineThird(g, i) ==
    [g EXCEPT !.title = IF g.im = 1 THEN Strip(i) ELSE @, !.im = @ - 1]

\* lines 192-194: line i read while the countdown im runs
HeaderLine(g, i) ==
    [g EXCEPT !.title = IF g.im = 3 THEN Strip(i) ELSE @, !.im = @ - 1]

\* MetaLine with a header that has an empty key leaving the current key
MetaLineKeepsKey(g, i) ==
    IF IsHead(lines[i])
    THEN [g EXCEPT !.mkey = IF HeadKey(lines[i]) = "" THEN @ ELSE HeadKey(lines[i]),
                   !.log = IF HeadKey(lines[i]) = ""
                           THEN Append(@, <<"meta", i>>) ELSE @]
    ELSE IF g.mkey # "" /\ Strip(i) # 0
    THEN [g EXCEPT !.meta = MetaAppend(@, g.mkey, Strip(i))]
    ELSE g

\* lines 182-190: line i read in the metadata of a record
MetaLine(g, i) ==
    IF IsHead(lines[i])
    THEN [g EXCEPT !.mkey = HeadKey(lines[i]),
                   !.log = IF HeadKey(lines[i]) = ""
                           THEN Append(@, <<"meta", i>>) ELSE @]
    ELSE IF g.mkey # "" /\ Strip(i) # 0
    THEN [g EXCEPT !.meta = MetaAppend(@, g.mkey, Strip(i))]
    ELSE g

RECURSIVE ReaderLoop(_, _, _)
\* lines 128-223: for line in self.__file, from line i at byte position p,
\* until the generator yields or ends
ReaderLoop(g, i, p) ==
    IF i = 0 \/ i > NLines THEN ReaderEnd(g, p)
    ELSE
    LET k == lines[i]
        q == p + LineLen(i)
    IN  IF g.failkey /\ ~StartsWithDelim(k)
        THEN ReaderLoop(g, i + 1, q)
        ELSE IF g.parser
        THEN CASE Parse(k) = "done" ->
                    ReaderLoop([g EXCEPT !.record = <<[mol |-> Append(g.mol, i)]>>,
                                         !.parser = FALSE, !.mol = << >>], i + 1, q)
               [] Parse(k) = "more" ->
                    ReaderLoop([g EXCEPT !.mol = Append(@, i)], i + 1, q)
               [] OTHER ->
                    LET log == Append(g.log, <<"line", i>>)
                    IN  [g |-> [g EXCEPT !.parser = FALSE, !.mol = << >>,
                                         !.log = log, !.pc = "err"],
                         fpos |-> q,
                         y |-> parse_error(g.count, g.pos, log, EmptyMeta)]
        ELSE IF StartsWithDelim(k)
        THEN IF g.record # << >>
             THEN [g |-> [g EXCEPT !.pc = "rec",
                                   !.log = IF ConvertFails(g.record[1])
                                           THEN Append(@, <<"record", 0>>) ELSE @],
                   fpos |-> q,
                   y |-> Finalize(g)]
             ELSE ReaderLoop(DelimiterTail(g, q), i + 1, q)
        ELSE IF g.record # << >>
        THEN ReaderLoop(MetaLine(g, i), i + 1, q)
        ELSE IF g.im # 0
        THEN ReaderLoop(HeaderLine(g, i), i + 1, q)
        ELSE IF ~FormatFails(k)
        THEN IF HasV2000(k) /\ ~EmptyMol(k)
             THEN ReaderLoop([g EXCEPT !.parser = TRUE, !.mol = <<i>>], i + 1, q)
             ELSE IF HasV2000(k)      \* lines 200-203: EMOLRead, with a message
             THEN ReaderLoop([g EXCEPT !.parser = TRUE, !.mol = << >>,
                                       !.log = Append(@, <<"empty", i>>)], i + 1, q)
             ELSE ReaderLoop([g EXCEPT !.parser = TRUE, !.mol = << >>], i + 1, q)
        ELSE LET log == Append(g.log, <<"line", i>>)
             IN  [g |-> [g EXCEPT !.log = log, !.pc = "err"],
                  fpos |-> q,
                  y |-> parse_error(g.count, g.pos, log, EmptyMeta)]

\* The locals the loop is entered with when the generator, parked at the
\* acknowledgement of an injected target, is resumed with the file at p:
\* lines 122-124, 142-150 (and 215-223), 169-180
AfterAck(g, p) ==
    CASE g.pc = "ack_init" -> [g EXCEPT !.pos = p, !.count = g.seek]
      [] g.pc = "ack_err"  -> RestartAfterError(g, p)
      [] OTHER             -> AfterRecord([g EXCEPT !.count = g.seek - 1], p)

\* One resumption of the generator g, by next() (v = None) or by send(v),
\* with the file at byte p: the generator's new state, the file position,
\* self.__already_seeked and the value handed back (YStop: StopIteration)
Resume(g, v, p, seeked) ==
    LET acked(h) == [g |-> [h EXCEPT !.seek = v], fpos |-> p, seeked |-> seeked, y |-> YNone]
        run(h, flag) ==
            LET r == ReaderLoop(h, LineAt(p), p)
            IN  [g |-> r.g, fpos |-> r.fpos, seeked |-> flag, y |-> r.y]
    IN  CASE g.pc = "new" ->       \* runs to the init stop, line 119
               [g |-> [g EXCEPT !.pc = "init"], fpos |-> p, seeked |-> seeked, y |-> YNone]
          [] g.pc = "init" ->      \* line 119
               IF v # None
               THEN acked([g EXCEPT !.pc = "ack_init"])
               ELSE run([g EXCEPT !.seek = None,
                                  !.pos = IF Seekable THEN 0 ELSE None,
                                  !.count = 0], seeked)
          [] g.pc = "ack_init" ->  \* line 121
               run(AfterAck(g, p), FALSE)
          [] g.pc = "err" ->       \* lines 139 and 212
               IF v # None
               THEN acked([g EXCEPT !.pc = "ack_err"])
               ELSE run([g EXCEPT !.seek = None, !.failkey = TRUE, !.log = << >>], seeked)
          [] g.pc = "ack_err" ->   \* lines 141 and 214
               run(AfterAck(g, p), FALSE)
          [] g.pc = "rec" ->       \* lines 160 and 166
               IF v # None
               THEN acked([g EXCEPT !.pc = "ack_rec"])
               ELSE run(AfterRecord([g EXCEPT !.seek = None], p), seeked)
          [] g.pc = "ack_rec" ->   \* line 168
               run(AfterAck(g, p), FALSE)
          [] OTHER ->              \* "final" (lines 235, 242) and "done"
               [g |-> [g EXCEPT !.pc = "done"], fpos |-> p, seeked |-> seeked, y |-> YStop]

-----------------------------------------------------------------------------
(* The calls of the driver *)

\* HasIndex of a reader that takes every stream to be indexed
HasIndexAlways == TRUE

\* lines 76 and 104: if self._shifts
HasIndex == shifts # << >>

RECURSIVE bisect_right(_, _, _, _)
\* bisect_left with the comparison of bisect.bisect_right
bisect_right(a, x, lo, hi) ==
    IF lo < hi
    THEN LET mid == (lo + hi) \div 2
         IN  IF x < a[mid + 1]
             THEN bisect_right(a, x, lo, mid)
             ELSE bisect_right(a, x, mid + 1, hi)
    ELSE lo

RECURSIVE bisect_left(_, _, _, _)
\* bisect.bisect_left(a, x) over the 0-based list a, from lo = 0, hi = len(a)
bisect_left(a, x, lo, hi) ==
    IF lo < hi
    THEN LET mid == (lo + hi) \div 2
         IN  IF a[mid + 1] < x
             THEN bisect_left(a, x, mid + 1, hi)
             ELSE bisect_left(a, x, lo, mid)
    ELSE lo

\* SDFRead.tell: the value returned, or the error raised
TellCall ==
    IF HasIndex
    THEN [err |-> "none", v |-> bisect_left(shifts, fpos, 0, Len(shifts))]
    ELSE [err |-> "NotImplementedError", v |-> None]

\* InRange with the table taken to hold one entry per record
InRangeOfRecords(offset) == 0 <= offset /\ offset < Len(shifts) - 1

\* line 77
InRange(offset) == 0 <= offset /\ offset < Len(shifts)

\* AfterSend with lines 88 and 92 (self.__already_seeked = True) left out
AfterSendUnmarked(r) ==
    [g |-> r.g, fpos |-> r.fpos, seeked |-> r.seeked, err |-> "none", sent |-> TRUE]

\* lines 87-88 and 91-92: the send came back, the seek is marked
AfterSend(r) ==
    [g |-> r.g, fpos |-> r.fpos, seeked |-> TRUE, err |-> "none", sent |-> TRUE]

\* SDFRead.seek(offset): the state it leaves and the error it raises;
\* sent tells whether a send(offset) was made and came back
SeekCall(offset) ==
    LET same(e) == [g |-> data, fpos |-> fpos, seeked |-> already_seeked,
                    err |-> e, sent |-> FALSE]
    IN
    IF ~HasIndex THEN same("NotImplementedError")
    ELSE IF ~InRange(offset) THEN same("IndexError")
    ELSE
    LET current_pos == fpos
        new_pos == shifts[offset + 1]
    IN  IF current_pos = new_pos THEN same("none")
        ELSE IF current_pos = shifts[Len(shifts)]
        THEN LET fresh == Resume(NewReader(data.log), None, new_pos, already_seeked)
             IN  IF offset # 0
                 THEN AfterSend(Resume(fresh.g, offset, new_pos, already_seeked))
                 ELSE [g |-> fresh.g, fpos |-> new_pos, seeked |-> already_seeked,
                       err |-> "none", sent |-> FALSE]
        ELSE IF ~already_seeked
        THEN LET r == Resume(data, offset, new_pos, already_seeked)
             IN  IF r.y = YStop
                 THEN [g |-> r.g, fpos |-> r.fpos, seeked |-> r.seeked,
                       err |-> "StopIteration", sent |-> FALSE]
                 ELSE AfterSend(r)
        ELSE same("BlockingIOError")

\* next(self._data)
Read ==
    LET r == Resume(data, None, fpos, already_seeked)
    IN  /\ data' = r.g
        /\ fpos' = r.fpos
        /\ already_seeked' = r.seeked
        /\ last' = [op |-> "read", arg |-> None, sent |-> FALSE, val |-> r.y,
                    err |-> IF r.y = YStop THEN "StopIteration" ELSE "none"]
        /\ out' = IF r.y = YStop THEN out ELSE Append(out, r.y)
        /\ UNCHANGED <<input, shifts, writer, preparer>>

Seek(offset) ==
    LET r == SeekCall(offset)
    IN  /\ Len(data.log) <= MaxLog
        /\ data' = r.g
        /\ fpos' = r.fpos
        /\ already_seeked' = r.seeked
        /\ last' = [op |-> "seek", arg |-> offset, sent |-> r.sent, val |-> YNone,
                    err |-> r.err]
        /\ out' = << >>
        /\ UNCHANGED <<input, shifts, writer, preparer>>

Tell ==
    LET r == TellCall
    IN  /\ last' = [op |-> "tell", arg |-> None, sent |-> FALSE,
                    val |-> [t |-> "int", v |-> r.v], err |-> r.err]
        /\ UNCHANGED <<input, shifts, fpos, data, already_seeked, out, writer, preparer>>

-----------------------------------------------------------------------------
(* The files the stream is run on *)

Record(name) ==
    CASE name = "G"  -> <<"hdr", "hdr", "hdr", "V2000", "atom", "end", ">a", "val", "$$$$">>
      [] name = "GX" -> <<"hdr", "blank", "hdr", "V3000", "end", ">a", "x$$$$", "$$$$">>
      [] name = "BF" -> <<"hdr", "hdr", "hdr", "hdr", "atom", "end", "$$$$">>
      [] name = "BP" -> <<"hdr", "hdr", "hdr", "V2000", "bad", "end", "$$$$">>
      [] name = "BT" -> <<"hdr", "hdr", "hdr", "V2000", "atom", "$$$$">>
      [] name = "BC" -> <<"hdr", "hdr", "hdr", "V2000", "atom", "endx", ">a", "val", "$$$$">>
      [] name = "GE" -> <<"hdr", "hdr", "hdr", "V2000", "end", ">a", "val", ">", "val",
                          "val", ">b", "val", "$$$$">>
      [] name = "GF" -> <<"hdr", "hdr", "hdr", "V3000", "end", ">", "val", ">a", "val",
                          "val", "$$$$">>
      [] name = "GN" -> <<"blank", "hdr", "hdr", "V2000", "atom", "end", "$$$$">>
      [] name = "BS" -> <<"hdr", "hdr", "$$$$">>
      [] name = "GV" -> <<"hdr", "hdr", "hdr", "V2000e", "atom", "end", ">a", "val", "$$$$">>

Records == {"G", "GX", "BF", "BP", "BT", "BC"}

Trailer(name) ==
    CASE name = "junk" -> <<"blank">>
      [] name = "open" -> <<"hdr", "hdr", "hdr", "V2000", "end", ">a", "val">>
      [] name = "openhdr"  -> <<"hdr", "hdr">>
      [] name = "openfmt"  -> <<"hdr", "hdr", "hdr", "hdr", "atom">>
      [] name = "openmol"  -> <<"hdr", "hdr", "hdr", "V2000", "atom">>
      [] name = "openend"  -> <<"hdr", "hdr", "hdr", "V3000", "end">>
      [] name = "openbad"  -> <<"hdr", "hdr", "hdr", "V2000", "endx", ">a", "val">>
      [] OTHER         -> << >>

Trailers == {"eol", "noeol", "junk", "open"}

Modes == {"indexed", "plain", "pipe"}

RECURSIVE Flatten(_)
Flatten(recs) ==
    IF recs = << >> THEN << >> ELSE Record(Head(recs)) \o Flatten(Tail(recs))

Layouts(max) ==
    UNION {[recs : [1..n -> Records], tail : Trailers, ignore : {FALSE}] : n \in 0..max}

\* SDFRead.__init__: the generator is created and run to its init stop; the
\* table is loaded when indexable (grep finds no line: no reader is built)
ConstructOn(layouts) ==
    /\ layout \in layouts
    /\ lines = Flatten(layout.recs) \o Trailer(layout.tail)
    /\ lines # << >>
    /\ eol = (layout.tail # "noeol")
    /\ mode \in Modes
    /\ mode = "indexed" => \E i \in 1..Len(lines) : ContainsDelim(lines[i])
    /\ shifts = IF mode = "indexed" THEN GetShifts ELSE << >>
    /\ fpos = 0
    /\ data = Resume(NewReader(<< >>), None, 0, FALSE).g
    /\ already_seeked = FALSE
    /\ last = [op |-> "new", arg |-> None, sent |-> FALSE, val |-> YNone, err |-> "none"]
    /\ out = << >>
    /\ wkind = ""
    /\ wfile = << >>
    /\ wlast = << >>
    /\ parsed = << >>
    /\ NoPreparer

Construct(max) == ConstructOn(Layouts(max))

Init == Construct(MaxSeekRecords)

Next ==
    \/ Read
    \/ \E offset \in -1..Len(shifts) : Seek(offset)
    \/ Tell

Spec == Init /\ [][Next]_vars

\* the stream driven by reads alone
NextSeq ==
    \/ Read
    \/ Tell

InitSeq == Construct(MaxRecords)

SpecSeq == InitSeq /\ [][NextSeq]_vars

\* a read would change nothing: the negation of ENABLED <<Read>>_vars
ReadStutters ==
    LET r == Resume(data, None, fpos, already_seeked)
    IN  /\ r.g = data
        /\ r.fpos = fpos
        /\ r.seeked = already_seeked
        /\ r.y = YStop
        /\ last = [op |-> "read", arg |-> None, sent |-> FALSE, val |-> YStop,
                   err |-> "StopIteration"]

\* the same, the driver going on to read (list(reader), a for loop over the
\* reader): weak fairness of Read, WF_vars(Read), written out with
\* ReadStutters for the negation of ENABLED <<Read>>_vars
SpecSeqFair == SpecSeq /\ ([]<><<Read>>_vars \/ []<>ReadStutters)

\* the phases a file can end in after its last delimiter line: in the header
\* lines, right after a failed format line, inside the mol block, after the
\* mol block, in the metadata (converter succeeding or failing)
OpenTrailers == {"openhdr", "openfmt", "openmol", "openend", "open", "openbad"}

InitOpen ==
    ConstructOn(UNION {[recs : [1..n -> Records], tail : OpenTrailers, ignore : {FALSE}] : n \in 0..MaxSeekRecords})

\* the stream driven by reads alone on files that end without a delimiter
SpecOpen == InitOpen /\ [][NextSeq]_vars

\* records with a metadata header whose key is empty or with an empty first
\* line, among others
MetaRecords == {"G", "BF", "GE", "GF", "GN"}

InitMeta ==
    ConstructOn(UNION {[recs : [1..n -> MetaRecords], tail : Trailers, ignore : {FALSE}] : n \in 0..MaxSeekRecords})

SpecMeta == InitMeta /\ [][NextSeq]_vars

\* records that end with a delimiter line: well-formed, without a format
\* marker, shorter than four lines, with a mol block cut by the delimiter
DelimitedRecords == {"G", "BF", "BS", "BT"}

InitDelimited ==
    ConstructOn(UNION {[recs : [1..n -> DelimitedRecords], tail : {"eol", "noeol"}, ignore : {FALSE}] :
                           n \in 0..MaxRecords})

\* the stream driven by reads alone on files whose records all end with a
\* delimiter line
SpecDelimited == InitDelimited /\ [][NextSeq]_vars

\* records told apart by their format line: V2000, V2000 with no atoms,
\* V3000, no marker
FormatRecords == {"G", "GV", "GF", "BF"}

InitFormat ==
    ConstructOn(UNION {[recs : [1..n -> FormatRecords], tail : {"eol"}, ignore : BOOLEAN] :
                           n \in 0..MaxRecords})

\* the stream driven by reads alone, with self._ignore set or not
SpecFormat == InitFormat /\ [][NextSeq]_vars

-----------------------------------------------------------------------------
(* Text: a string is a sequence of pieces.  A piece is one character, or  *)
(* a capital word standing for a run of characters none of which the      *)
(* reader or the writers treat specially: "N" a name, "A" a line of a mol *)
(* block, "V2000" / "V3000" a counts line with that marker, "E" M  END.   *)

NL == "\n"

IsSpace(c) == c \in {" ", NL}

RECURSIVE Join(_, _)
\* sep.join(parts)
Join(sep, parts) ==
    IF parts = << >> THEN << >>
    ELSE IF Len(parts) = 1 THEN parts[1]
    ELSE parts[1] \o sep \o Join(sep, Tail(parts))

RECURSIVE SplitLines(_, _, _)
SplitLines(text, cur, acc) ==
    IF text = << >> THEN (IF cur = << >> THEN acc ELSE Append(acc, cur))
    ELSE IF Head(text) = NL
    THEN SplitLines(Tail(text), << >>, Append(acc, Append(cur, NL)))
    ELSE SplitLines(Tail(text), Append(cur, Head(text)), acc)

\* iter(self._file.readline, ''): the lines of a text, each with its newline
readlines(text) == SplitLines(text, << >>, << >>)

RECURSIVE lstrip(_)
lstrip(str) ==
    IF str # << >> /\ IsSpace(Head(str)) THEN lstrip(Tail(str)) ELSE str

RECURSIVE rstrip(_)
rstrip(str) ==
    IF str # << >> /\ IsSpace(str[Len(str)])
    THEN rstrip(SubSeq(str, 1, Len(str) - 1)) ELSE str

\* str.strip()
strip(str) == rstrip(lstrip(str))

\* line.startswith("$$$$")
startswith_delimiter(line) ==
    Len(line) >= 4 /\ \A i \in 1..4 : line[i] = "$"

\* 'V2000' in line, 'V3000' in line, and the end line of a mol block
contains(line, piece) == \E i \in 1..Len(line) : line[i] = piece

\* match(head, line) with head = r'>\s.*<(.*)>': both .* are greedy, so the
\* group runs from the last '<' that has a '>' after it to the last '>'
head_match(line) ==
    LET closes == {j \in 1..Len(line) : line[j] = ">"}
        opens == {i \in 3..Len(line) : line[i] = "<" /\ \E j \in closes : j > i}
        max(S) == CHOOSE m \in S : \A n \in S : n <= m
    IN  IF Len(line) >= 4 /\ line[1] = ">" /\ IsSpace(line[2]) /\ opens # {}
        THEN [matched |-> TRUE, group |-> SubSeq(line, max(opens) + 1, max(closes) - 1)]
        ELSE [matched |-> FALSE, group |-> << >>]

\* self._prepare_meta(meta): the values of a key joined into one string
prepare_meta(meta) == [k \in DOMAIN meta |-> Join(<<NL>>, meta[k])]

\* the locals of SDFRead.__reader that a read without seek uses
NewTextReader ==
    [im |-> 3, failkey |-> FALSE, parser |-> FALSE, record |-> FALSE,
     mkey |-> << >>, meta |-> EmptyMeta, title |-> << >>, yielded |-> << >>]

\* lines 152-166 and 226-242 on text: the record is handed to the converter,
\* its title set when not empty
TextRecord(g) == [t |-> "obj", title |-> g.title, meta |-> prepare_meta(g.meta)]

RECURSIVE ReadLines(_, _)
\* lines 128-242 on text, read from start to end by next() alone: the
\* values the generator yields
ReadLines(g, rest) ==
    IF rest = << >>
    THEN IF g.record THEN Append(g.yielded, TextRecord(g)) ELSE g.yielded
    ELSE
    LET line == Head(rest)
        next == Tail(rest)
        error == [t |-> "err"]
    IN  IF g.failkey /\ ~startswith_delimiter(line)
        THEN ReadLines(g, next)
        ELSE IF g.parser
        THEN IF startswith_delimiter(line)
             THEN ReadLines([g EXCEPT !.parser = FALSE, !.failkey = TRUE,
                                      !.yielded = Append(@, error)], next)
             ELSE IF contains(line, "E")
             THEN ReadLines([g EXCEPT !.parser = FALSE, !.record = TRUE], next)
             ELSE ReadLines(g, next)
        ELSE IF startswith_delimiter(line)
        THEN ReadLines([g EXCEPT !.yielded = IF g.record
                                             THEN Append(@, TextRecord(g)) ELSE @,
                                 !.record = FALSE, !.im = 3, !.failkey = FALSE,
                                 !.mkey = << >>, !.meta = EmptyMeta], next)
        ELSE IF g.record
        THEN LET head_line == head_match(line)
                 data_ == strip(line)
             IN  IF head_line.matched
                 THEN ReadLines([g EXCEPT !.mkey = strip(head_line.group)], next)
                 ELSE IF g.mkey # << >> /\ data_ # << >>
                 THEN ReadLines([g EXCEPT !.meta = MetaAppend(@, g.mkey, data_)], next)
                 ELSE ReadLines(g, next)
        ELSE IF g.im # 0
        THEN ReadLines([g EXCEPT !.title = IF g.im = 3 THEN strip(line) ELSE @,
                                 !.im = @ - 1], next)
        ELSE IF contains(line, "V2000") \/ contains(line, "V3000")
        THEN ReadLines([g EXCEPT !.parser = TRUE], next)
        ELSE ReadLines([g EXCEPT !.failkey = TRUE, !.yielded = Append(@, error)], next)

\* list(SDFRead(file)) on a file holding the text
ReadText(text) == ReadLines(NewTextReader, readlines(text))

-----------------------------------------------------------------------------
(* The writers SDFWrite and ESDFWrite *)

\* calls of write on one writer
MaxWrites == 2

Delimiter == <<"$", "$", "$", "$", NL>>

\* MDLWrite._convert_structure(data): a V2000 mol file, name line first,
\* ending with M  END; a list of them for data the converter splits
MolFile == <<"N", NL, NL, NL, "V2000", NL, "A", NL, "E", NL>>
MolConvert(data_) == IF data_.mol = "list" THEN <<MolFile, MolFile>> ELSE MolFile

\* EMDLWrite._convert_structure(data): the body of a V3000 mol block
EMolBody == <<"A", NL>>
EMolConvert(data_) == IF data_.mol = "list" THEN <<EMolBody, EMolBody>> ELSE EMolBody

\* f'{data.name}\n\n\n  0  0  0     0  0            999 V3000\n'
EHeader == <<"N", NL, NL, NL, "V3000", NL>>

RECURSIVE MetaTextReversed(_)
\* MetaText with the items taken last to first
MetaTextReversed(items) ==
    IF items = << >> THEN << >>
    ELSE MetaTextReversed(Tail(items))
            \o <<">", " ", " ", "<">> \o Head(items)[1] \o <<">", NL>>
            \o Head(items)[2] \o <<NL>>

RECURSIVE MetaText(_)
\* lines 263-264 and 286-287: f'>  <{k}>\n{v}\n' for every item of the mapping
MetaText(items) ==
    IF items = << >> THEN << >>
    ELSE <<">", " ", " ", "<">> \o Head(items)[1] \o <<">", NL>>
            \o Head(items)[2] \o <<NL>> \o MetaText(Tail(items))

\* SDFWrite.write(data): the text it writes
SDFWriteText(data_) ==
    LET mol == MolConvert(data_)
    IN  (IF data_.mol = "list" THEN Join(Delimiter, mol) ELSE mol)
            \o MetaText(data_.meta) \o Delimiter

\* ESDFWrite.write(data): the text it writes
ESDFWriteText(data_) ==
    LET mol == EMolConvert(data_)
    IN  EHeader
            \o (IF data_.mol = "list"
                THEN Join(<<"E", NL>> \o Delimiter \o EHeader, mol) ELSE mol)
            \o <<"E", NL>> \o MetaText(data_.meta) \o Delimiter

WriteText(kind, data_) ==
    IF kind = "SDFWrite" THEN SDFWriteText(data_) ELSE ESDFWriteText(data_)

\* self._convert_structure(data) raises: data the converter does not accept
ConvertRaises(data_) == data_.mol = "bad"

\* Written with the header of ESDFWrite written before the conversion
WrittenHeaderFirst(kind, data_) ==
    IF ConvertRaises(data_)
    THEN (IF kind = "ESDFWrite" THEN EHeader ELSE << >>)
    ELSE WriteText(kind, data_)

\* what a call of write appends to the file: the conversion is the first
\* statement (lines 257 and 278), when it raises no self._file.write is reached
Written(kind, data_) ==
    IF ConvertRaises(data_) THEN << >> ELSE WriteText(kind, data_)

\* write(data): self._file.write appends
Write(data_) ==
    /\ Len(wlast) < MaxWrites
    /\ wfile' = wfile \o Written(wkind, data_)
    /\ wlast' = Append(wlast, data_)
    /\ parsed' = << >>
    /\ UNCHANGED <<input, reader, wkind, preparer>>

\* the file, holding the output of one call, read back with SDFRead
Reparse ==
    /\ Len(wlast) = 1
    /\ parsed = << >>
    /\ parsed' = ReadText(wfile)
    /\ UNCHANGED <<input, reader, wkind, wfile, wlast, preparer>>

\* keys and values of the metadata written
MetaKeys == {<<"a">>, <<"b">>}
MetaValues == {<< >>, <<" ", "x">>, <<"x", NL, "y">>}

\* data.meta.items(): the mappings over the keys, in every insertion order
MetaItems ==
    {<< >>}
      \cup {<<<<k, v>>>> : k \in MetaKeys, v \in MetaValues}
      \cup {<<<<ks[1], v1>>, <<ks[2], v2>>>> :
               ks \in {p \in MetaKeys \X MetaKeys : p[1] # p[2]},
               v1 \in MetaValues, v2 \in MetaValues}

Objects == [mol : {"str", "list"}, meta : MetaItems]

\* no SDFRead is constructed
NoReader ==
    /\ lines = << >>
    /\ eol = TRUE
    /\ layout = [recs |-> << >>, tail |-> "eol", ignore |-> FALSE]
    /\ mode = "plain"
    /\ shifts = << >>
    /\ fpos = 0
    /\ data = NewReader(<< >>)
    /\ already_seeked = FALSE
    /\ last = [op |-> "new", arg |-> None, sent |-> FALSE, val |-> YNone, err |-> "none"]
    /\ out = << >>

InitWrite ==
    /\ NoReader
    /\ wkind \in {"SDFWrite", "ESDFWrite"}
    /\ wfile = << >>
    /\ wlast = << >>
    /\ parsed = << >>
    /\ NoPreparer

NextWrite ==
    \/ \E data_ \in Objects : Write(data_)
    \/ Reparse

SpecWrite == InitWrite /\ [][NextWrite]_vars

\* objects the converter accepts and objects it raises on
FailObjects ==
    [mol : {"str", "list", "bad"},
     meta : {<< >>} \cup {<<<<k, <<"x">>>>>> : k \in MetaKeys}]

NextWriteFail == \E data_ \in FailObjects : Write(data_)

\* a writer called with such objects
SpecWriteFail == InitWrite /\ [][NextWriteFail]_vars

-----------------------------------------------------------------------------
(* The reader on the text of one record whose metadata is any sequence of  *)
(* lines: headers for two keys, a header whose key is blank, values, a     *)
(* value with white space around it, a line of white space.                *)

\* lines in the metadata of the record
MaxMetaLines == 5

MetaLineTexts ==
    { <<">", " ", "<", "a", ">", NL>>,
      <<">", " ", "<", "b", ">", NL>>,
      <<">", " ", "<", " ", ">", NL>>,
      <<"x", NL>>,
      <<" ", "y", " ", NL>>,
      <<" ", NL>> }

MetaBlocks == UNION {[1..n -> MetaLineTexts] : n \in 0..MaxMetaLines}

\* a file of one record: a mol file, the metadata lines, the delimiter line
RecordText(block) == MolFile \o Join(<< >>, block) \o Delimiter

InitText ==
    /\ NoReader
    /\ wkind = "file"
    /\ wfile \in {RecordText(block) : block \in MetaBlocks}
    /\ wlast = << >>
    /\ parsed = << >>
    /\ NoPreparer

\* SDFRead constructed on the file and read to the end
ReadFile ==
    /\ wkind = "file"
    /\ wkind' = "read"
    /\ parsed' = ReadText(wfile)
    /\ UNCHANGED <<input, reader, wfile, wlast, preparer>>

NextText == ReadFile

SpecText == InitText /\ [][NextText]_vars

-----------------------------------------------------------------------------
(* CGRpreparer (preparer.py), constructed without templates *)

\* integers in a cgr_type string
MaxCodes == 2

\* the integers a cgr_type string is made of: the codes the type is derived
\* from, with the ends of their ranges and values outside of them
Codes == {0, 1, 2, 5, 100, 101, 199, 200, 201, 299, 300,
          -100, -101, -199, -200, -201, -299, -300}

\* any(True for x in needed if lo < x < hi)
AnyIn(needed, lo, hi) == \E i \in 1..Len(needed) : lo < needed[i] /\ needed[i] < hi

\* lines 160-194, CGRpreparer.__get_cgr_type on the integers of the string:
\* the type and the indices needed (as sets; none for the types 0, 1, 2)
get_cgr_type(needed) ==
    LET excR == AnyIn(needed, -200, -100)
        excP == AnyIn(needed, -300, -200)
        incR == AnyIn(needed, 100, 200)
        incP == AnyIn(needed, 200, 300)
        first == needed[1]
        abs(x) == IF x < 0 THEN -x ELSE x
        t == IF first = 0 THEN 0
             ELSE IF first = 1 THEN 1
             ELSE IF first = 2 THEN 2
             ELSE IF ~excR /\ ~excP /\ incR /\ incP THEN 7
             ELSE IF excR /\ excP THEN 8
             ELSE IF excR /\ ~excP /\ incP THEN 9
             ELSE IF ~excR /\ excP /\ incR THEN 10
             ELSE IF 100 < first /\ first < 200 THEN 3
             ELSE IF 200 < first /\ first < 300 THEN 4
             ELSE IF -200 < first /\ first < -100 THEN 5
             ELSE IF -300 < first /\ first < -200 THEN 6
             ELSE 0
        of(lo, hi, base) ==
            {abs(needed[i]) - base : i \in {j \in 1..Len(needed) :
                                              lo < abs(needed[j]) /\ abs(needed[j]) < hi}}
    IN  [t |-> t,
         ind |-> IF t > 2
                 THEN [none |-> FALSE, reagents |-> of(100, 200, 101),
                       products |-> of(200, 300, 201)]
                 ELSE [none |-> TRUE, reagents |-> {}, products |-> {}]]

\* what a call returns or raises
Raised(e) == [err |-> e, kind |-> "", parts |-> << >>, marks_reset |-> FALSE]
Returned(kind, parts, reset) ==
    [err |-> "none", kind |-> kind, parts |-> parts, marks_reset |-> reset]

\* self.__union_all(...) of all molecules of a side, of those at the indices
\* needed (__get_mols) or of those not at them (__exc_mols); subscripting
\* self.__needed when it is None raises TypeError
Union(side, pick, ind) ==
    IF pick = "all" THEN [err |-> "none", side |-> side, pick |-> pick, at |-> {}]
    ELSE IF ind.none THEN [err |-> "TypeError", side |-> side, pick |-> pick, at |-> {}]
    ELSE [err |-> "none", side |-> side, pick |-> pick, at |-> ind[side]]

\* lines 196-211: CGRpreparer.__reaction_splitter
reaction_splitter(t, ind) ==
    LET g == CASE t = 1 -> Union("reagents", "all", ind)
               [] t = 2 -> Union("products", "all", ind)
               [] t = 3 -> Union("reagents", "get", ind)
               [] t = 4 -> Union("products", "get", ind)
               [] t = 5 -> Union("reagents", "exc", ind)
               [] t = 6 -> Union("products", "exc", ind)
               [] OTHER -> [err |-> "Splitter Error"]
    IN  IF g.err # "none" THEN Raised(g.err) ELSE Returned("union", <<g>>, FALSE)

\* lines 130-151: CGRpreparer.merge_mols
merge_mols(t, ind) ==
    LET pair(r, p) ==
            IF r.err # "none" THEN Raised(r.err)
            ELSE IF p.err # "none" THEN Raised(p.err)
            ELSE Returned("merged", <<r, p>>, FALSE)
    IN  CASE t = 0  -> pair(Union("reagents", "all", ind), Union("products", "all", ind))
          [] t = 7  -> pair(Union("reagents", "get", ind), Union("products", "get", ind))
          [] t = 8  -> pair(Union("reagents", "exc", ind), Union("products", "exc", ind))
          [] t = 9  -> pair(Union("reagents", "exc", ind), Union("products", "get", ind))
          [] t = 10 -> pair(Union("reagents", "get", ind), Union("products", "exc", ind))
          [] OTHER  -> Raised("Merging need reagents and products")

\* InSplitterTypes with the type 7 taken for a splitter type
InSplitterTypesWide(t) == t \in 1..7

\* line 86: self.__cgr_type in (1, 2, 3, 4, 5, 6)
InSplitterTypes(t) == t \in 1..6

\* lines 77-108: CGRpreparer.condense(data), data a reaction container
\* ("reaction") or a MergedReaction ("merged")
condense(data_) ==
    LET c == get_cgr_type(cgr_type)
        is_merged == data_ = "merged"
    IN  IF InSplitterTypes(c.t)
        THEN IF is_merged THEN Raised("invalid data")
             ELSE LET g == reaction_splitter(c.t, c.ind)
                  IN  IF g.err # "none" THEN g
                      ELSE Returned("union", g.parts, extralabels)
        ELSE LET res == IF is_merged
                        THEN Returned("merged", <<"reagents", "products">>, FALSE)
                        ELSE merge_mols(c.t, c.ind)
             IN  IF res.err # "none" THEN res
                 ELSE Returned("cgr", res.parts, extralabels)

Condense(data_) ==
    /\ condensed' = <<[data |-> data_, result |-> condense(data_)]>>
    /\ UNCHANGED <<input, reader, writer, cgr_type, extralabels>>

\* CGRpreparer(cgr_type, extralabels)
InitPrep ==
    /\ NoReader
    /\ wkind = ""
    /\ wfile = << >>
    /\ wlast = << >>
    /\ parsed = << >>
    /\ cgr_type \in UNION {[1..n -> Codes] : n \in 1..MaxCodes}
    /\ extralabels \in BOOLEAN
    /\ condensed = << >>

NextPrep == \E data_ \in {"reaction", "merged"} : Condense(data_)

SpecPrep == InitPrep /\ [][NextPrep]_vars

-----------------------------------------------------------------------------
(* What the claims speak of *)

Range(f) == {f[x] : x \in DOMAIN f}

NumRecords == Len(layout.recs)

RECURSIVE RecStart(_)
\* the number of the first line of the i-th record of the file (1-based)
RecStart(i) ==
    IF i = 1 THEN 1 ELSE RecStart(i - 1) + Len(Record(layout.recs[i - 1]))

\* the number of the delimiter line that ends the i-th record
RecEnd(i) == RecStart(i) + Len(Record(layout.recs[i])) - 1

\* the lines whose text an output holds
LinesOf(o) ==
    CASE o.t = "obj" ->
            ({o.title} \ {0, None}) \cup Range(o.mol)
                \cup UNION {Range(o.meta[k]) : k \in DOMAIN o.meta}
      [] o.t = "err" ->
            UNION {Range(o.meta[k]) : k \in DOMAIN o.meta}
      [] OTHER -> {}

\* o is a domain object built from the i-th record and from nothing else
ObjectOf(o, i) ==
    /\ o.t = "obj"
    /\ o.mol # << >>
    /\ LinesOf(o) \subseteq RecStart(i)..RecEnd(i)

\* o is a ParseError raised while the i-th record was read
ErrorOf(o, i) ==
    /\ o.t = "err"
    /\ LinesOf(o) \subseteq RecStart(i)..RecEnd(i)
    /\ \A e \in Range(o.log) : e[2] = 0 \/ e[2] \in RecStart(i)..RecEnd(i)

GoodRecords == {"G", "GX"}
BadRecords == {"BF", "BP", "BT", "BC"}

\* every record is well formed and ends with its delimiter line
WellFormedFile ==
    /\ \A i \in 1..NumRecords : layout.recs[i] \in GoodRecords
    /\ layout.tail # "open"

\* the stream has reported end-of-stream
AtEnd == data.pc = "done"

RECURSIVE NthYield(_, _, _, _)
NthYield(g, p, seeked, k) ==
    LET r == Resume(g, None, p, seeked)
    IN  IF k <= 1 \/ r.y = YStop THEN r.y
        ELSE NthYield(r.g, r.fpos, r.seeked, k - 1)

\* the k-th value a stream constructed anew on the file yields to next()
FreshYield(k) == NthYield(Resume(NewReader(<< >>), None, 0, FALSE).g, 0, FALSE, k)

\* the indices seek accepts
Targets == 0..(Len(shifts) - 1)

\* the outputs so far were all yielded at the delimiter line of their record
AllAtDelimiter ==
    \A i \in 1..Len(out) :
        out[i].t = "obj" \/ (out[i].t = "err" /\ <<"record", 0>> \in Range(out[i].log))

\* the index (0-based) of the largest table entry <= p
LargestEntryLE(p) ==
    CHOOSE i \in Targets :
        /\ shifts[i + 1] <= p
        /\ \A j \in Targets : shifts[j + 1] <= p => j <= i

\* the line the last readline returned, the file being at a line boundary
JustRead == IF LineAt(fpos) = 0 THEN NLines ELSE LineAt(fpos) - 1

\* the delimiter lines before line i
DelimsBefore(i) == {j \in 1..(i - 1) : StartsWithDelim(lines[j])}

RECURSIVE DelimEnds(_, _, _)
\* the offsets of the byte after each line that starts with the delimiter
DelimEnds(i, start, acc) ==
    IF i > NLines THEN acc
    ELSE DelimEnds(i + 1, start + LineLen(i),
            IF StartsWithDelim(lines[i]) THEN Append(acc, start + LineLen(i)) ELSE acc)

-----------------------------------------------------------------------------
(* C1: a well-formed file of R records, read from the start to the end of
   the stream without seek, gives exactly R outputs, none a ParseError, the
   i-th of them built from the i-th record. *)
C1_WellFormedInOrder ==
    WellFormedFile =>
        /\ Len(out) <= NumRecords
        /\ \A i \in 1..Len(out) : ObjectOf(out[i], i)
        /\ AtEnd => Len(out) = NumRecords

C1_Witness ==
    /\ WellFormedFile
    /\ AtEnd
    /\ NumRecords >= 3
    /\ Len(out) = NumRecords
    /\ \E i \in 1..NumRecords : layout.recs[i] = "GX"

(* C2: a well-formed record, a malformed record and a well-formed record,
   read without seek, give exactly an object, a ParseError and an object,
   whatever the way the middle record is malformed. *)
C2_RecoversAfterMalformed ==
    ( /\ NumRecords = 3
      /\ layout.recs[1] \in GoodRecords
      /\ layout.recs[2] \in BadRecords
      /\ layout.recs[3] \in GoodRecords
      /\ layout.tail # "open"
      /\ AtEnd )
    => /\ Len(out) = 3
       /\ ObjectOf(out[1], 1)
       /\ ErrorOf(out[2], 2)
       /\ ObjectOf(out[3], 3)

(* C3: on an indexed stream, a seek(n) to a record index n that returns
   without error, followed by one read, yields what the (n+1)-th read of a
   stream constructed anew yields. *)
C3_SeekThenReadAsInOrder ==
    ( /\ mode = "indexed"
      /\ last.op = "seek"
      /\ last.err = "none"
      /\ last.arg \in 0..(NumRecords - 1) )
    => Resume(data, None, fpos, already_seeked).y = FreshYield(last.arg + 1)

C5_RangeError ==
    mode = "indexed" =>
        /\ \A n \in -2..(Len(shifts) + 1) :
              (SeekCall(n).err = "IndexError") <=> (n < 0 \/ n >= Len(shifts))
        /\ last.op = "seek" =>
              ((last.err = "IndexError") <=> (last.arg < 0 \/ last.arg >= Len(shifts)))

C5_Witness ==
    /\ mode = "indexed"
    /\ last.op = "seek"
    /\ last.arg = Len(shifts) - 1
    /\ last.err = "none"
    /\ last.sent
    /\ SeekCall(Len(shifts)).err = "IndexError"
    /\ SeekCall(-1).err = "IndexError"

(* C6: a seek that would hand its target to the stream process while the
   process is not at a stop that handles it (it is parked at the
   acknowledgement stop, at the final yield, or exhausted) raises
   BlockingIOError and leaves the file position and the process as they were. *)
C6_TargetNeverDropped ==
    (mode = "indexed" /\ data.pc \in {"ack_init", "ack_err", "ack_rec", "final", "done"})
    => \A n \in Targets :
          (shifts[n + 1] # fpos /\ fpos # shifts[Len(shifts)])
          => LET r == SeekCall(n)
             IN  r.err = "BlockingIOError" /\ r.fpos = fpos /\ r.g = data

(* C7: on an indexed stream tell() returns 0 after construction and k after
   k records were consumed by reads that each returned at a delimiter. *)
C7_TellCountsRecords ==
    (mode = "indexed" /\ data.pc \in {"init", "rec"} /\ AllAtDelimiter)
    => TellCall = [err |-> "none", v |-> Len(out)]

(* C8: at the start of a record or inside a record after a ParseError,
   tell() returns the index of the largest table entry <= the position. *)
C8_TellLargestEntryBelow ==
    (mode = "indexed" /\ data.pc \in {"init", "rec", "err"})
    => TellCall.v = LargestEntryLE(fpos)

(* C8, amended: tell() returns the number of table entries smaller than the
   position: the index of the position itself when it is a table entry, one
   more than the index of the largest entry below it when it is not. *)
C8_TellEntriesBelow ==
    mode = "indexed" =>
        /\ TellCall.err = "none"
        /\ TellCall.v = Cardinality({i \in 1..Len(shifts) : shifts[i] < fpos})
        /\ TellCall.v = IF fpos \in Range(shifts)
                        THEN LargestEntryLE(fpos) ELSE LargestEntryLE(fpos) + 1
        /\ last.op = "tell" => last.val.v = TellCall.v

C8_Witness ==
    /\ mode = "indexed"
    /\ last.op = "tell"
    /\ data.pc = "err"
    /\ fpos \notin Range(shifts)
    /\ last.val.v = LargestEntryLE(fpos) + 1
    /\ last.val.v < Len(shifts)

(* C9: a ParseError carries the number of delimiter lines that precede the
   failing record and, on an indexed source, the table entry of that index;
   on a source that is not seekable its offset is None. *)
C9_ErrorIndexAndOffset ==
    (last.op = "read" /\ last.val.t = "err")
    => LET index == Cardinality(DelimsBefore(JustRead))
       IN  /\ last.val.count = index
           /\ mode = "indexed" =>
                 index < Len(shifts) /\ last.val.pos = shifts[index + 1]
           /\ mode = "pipe" => last.val.pos = None

(* C10: the table starts with 0, is strictly increasing, its entry i is the
   offset of the byte after the i-th delimiter line, and it has one entry
   more than the reader delimits records in the file. *)
C10_TableMatchesReader ==
    mode = "indexed" =>
        /\ shifts[1] = 0
        /\ \A i \in 1..(Len(shifts) - 1) : shifts[i] < shifts[i + 1]
        /\ shifts = DelimEnds(1, 0, <<0>>)
        /\ AtEnd => Len(shifts) = data.count + 1

\* the lines after the last delimiter line of the file
TrailerLines == (Len(Flatten(layout.recs)) + 1)..NLines

\* the lines an output was made of, those its diagnostics name included
MadeOf(o) ==
    IF o.t \in {"obj", "err"}
    THEN LinesOf(o) \cup ({e[2] : e \in Range(o.log)} \ {0})
    ELSE {}

\* o is the output for the unterminated last record
ForLastRecord(o) == MadeOf(o) # {} /\ MadeOf(o) \subseteq TrailerLines

(* C11: on a file that ends without a delimiter line after its last record,
   whatever phase that record is in, a stream read to end-of-stream has
   yielded as its last output one made of the last record. *)
C11_LastRecordFinalized ==
    (AtEnd /\ TrailerLines # {})
    => (out # << >> /\ ForLastRecord(out[Len(out)]))

\* the value the mapping written last holds for key k
WrittenValue(k) ==
    LET items == wlast[Len(wlast)].meta
    IN  items[CHOOSE i \in 1..Len(items) : items[i][1] = k][2]

WrittenKeys ==
    LET items == wlast[Len(wlast)].meta
    IN  {items[i][1] : i \in 1..Len(items)}

\* one object was written by SDFWrite as one record and read back
ReadBack ==
    /\ wkind = "SDFWrite"
    /\ wlast # << >>
    /\ wlast[Len(wlast)].mol = "str"
    /\ parsed # << >>

(* C12: an object written by SDFWrite.write and read back from the
   single-record output is one domain object whose metadata has the keys
   and, for each key, the value string that were written. *)
C12_MetaRoundTrip ==
    ReadBack =>
        /\ Len(parsed) = 1
        /\ parsed[1].t = "obj"
        /\ DOMAIN parsed[1].meta = WrittenKeys
        /\ \A k \in WrittenKeys : parsed[1].meta[k] = WrittenValue(k)

\* the record whose delimiter line the last read returned at, 0 when none
RecordRead ==
    IF last.op = "read" /\ last.val.t \in {"obj", "err"}
          /\ \E i \in 1..NumRecords : RecEnd(i) = JustRead
    THEN CHOOSE i \in 1..NumRecords : RecEnd(i) = JustRead
    ELSE 0

\* the lines of record i that are metadata headers with an empty key
EmptyHeads(i) == {j \in RecStart(i)..RecEnd(i) : IsHead(lines[j]) /\ HeadKey(lines[j]) = ""}

\* the lines of record i that follow such a header, up to the next header
RECURSIVE GroupOf(_)
GroupOf(j) ==
    IF j + 1 > NLines \/ IsHead(lines[j + 1]) \/ StartsWithDelim(lines[j + 1])
    THEN {}
    ELSE {j + 1} \cup GroupOf(j + 1)

\* the value lines of record i under the header with key k
ValuesUnder(i, k) ==
    UNION {GroupOf(j) : j \in {h \in RecStart(i)..RecEnd(i) :
                                  IsHead(lines[h]) /\ HeadKey(lines[h]) = k}}

(* C13: a record with a metadata header whose key is empty is yielded at its
   delimiter as an object; the header is logged, the value lines under it
   are in no metadata value, no key is set for it, and the values of the
   other keys are the lines under their headers. *)
C13_EmptyKeyGroupDropped ==
    (RecordRead # 0 /\ EmptyHeads(RecordRead) # {})
    => LET i == RecordRead
           o == last.val
       IN  /\ o.t = "obj"
           /\ \A h \in EmptyHeads(i) :
                 /\ <<"meta", h>> \in Range(data.log)
                 /\ GroupOf(h) \cap LinesOf(o) = {}
           /\ "" \notin DOMAIN o.meta
           /\ \A k \in DOMAIN o.meta : Range(o.meta[k]) = ValuesUnder(i, k)
           /\ DOMAIN o.meta = {k \in {"a", "b"} : ValuesUnder(i, k) # {}}

C13_Witness ==
    /\ RecordRead # 0
    /\ layout.recs[RecordRead] = "GE"
    /\ RecordRead = 2
    /\ DOMAIN last.val.meta = {"a", "b"}

(* C14: the title of a record yielded as an object is the trimmed third line
   of the record, set on the record even when it is the empty string. *)
C14_TitleIsThirdLine ==
    (RecordRead # 0 /\ last.val.t = "obj")
    => last.val.title = Strip(RecStart(RecordRead) + 2)

(* C14, amended: the title is the trimmed first line of the record (taken
   when the countdown is at 3; the second and third lines are skipped), and
   it is set on the record only when it is not the empty string. *)
C14_TitleIsFirstLine ==
    (RecordRead # 0 /\ last.val.t = "obj")
    => LET first == RecStart(RecordRead)
       IN  last.val.title = IF Strip(first) # 0 THEN first ELSE None

C14_Witness ==
    /\ RecordRead = 2
    /\ layout.recs[2] = "GN"
    /\ last.val.t = "obj"
    /\ last.val.title = None
    /\ out[1].t = "obj"
    /\ out[1].title = 1

(* C15: on a stream built without an index every call of seek, whatever its
   argument, and every call of tell raises the not-implemented error and
   leaves the file position and the stream process as they were. *)
C15_NoIndexNoSeekTell ==
    mode # "indexed" =>
        /\ \A n \in -2..3 :
              SeekCall(n) = [g |-> data, fpos |-> fpos, seeked |-> already_seeked,
                             err |-> "NotImplementedError", sent |-> FALSE]
        /\ TellCall.err = "NotImplementedError"
        /\ last.op \in {"seek", "tell"} => last.err = "NotImplementedError"

C15_Witness ==
    /\ mode = "plain"
    /\ last.op = "seek"
    /\ last.arg = 0
    /\ last.err = "NotImplementedError"
    /\ data.pc = "rec"
    /\ fpos > 0

RECURSIVE Flat(_)
\* the texts of a sequence one after the other
Flat(texts) == IF texts = << >> THEN << >> ELSE Head(texts) \o Flat(Tail(texts))

\* what the metadata and the end of a record look like in the file: for each
\* item a line with the key in angle brackets, then the value and a newline,
\* and after the items the delimiter line
Framing(items) ==
    Flat([i \in 1..Len(items) |->
            <<">", " ", " ", "<">> \o items[i][1] \o <<">">> \o <<NL>>
                \o items[i][2] \o <<NL>>])
        \o <<"$", "$", "$", "$">> \o <<NL>>

\* text = body followed by tail, body not empty
EndsWith(text, tail) ==
    /\ Len(tail) < Len(text)
    /\ SubSeq(text, Len(text) - Len(tail) + 1, Len(text)) = tail

\* the text before the tail
Before(text, tail) == SubSeq(text, 1, Len(text) - Len(tail))

(* C16: the file holds the outputs of the calls of write in call order, each
   the output the call has on a new file; the output of a call is the structural
   content, the same whatever the metadata, followed by one header line and
   the value for every metadata item in mapping order and by one delimiter
   line as its last line, the same framing in both writers. *)
C16_WriteFraming ==
    wlast # << >> =>
        /\ wfile = Flat([i \in 1..Len(wlast) |-> WriteText(wkind, wlast[i])])
        /\ LET d == wlast[Len(wlast)]
               bare == [d EXCEPT !.meta = << >>]
           IN  \A kind \in {"SDFWrite", "ESDFWrite"} :
                     /\ EndsWith(WriteText(kind, d), Framing(d.meta))
                     /\ EndsWith(WriteText(kind, bare), Framing(<< >>))
                     /\ Before(WriteText(kind, d), Framing(d.meta))
                           = Before(WriteText(kind, bare), Framing(<< >>))
                     /\ LET written == readlines(WriteText(kind, d))
                        IN  written[Len(written)] = <<"$", "$", "$", "$", NL>>

C16_Witness ==
    /\ wkind = "ESDFWrite"
    /\ Len(wlast) = 2
    /\ wlast[1].mol = "list"
    /\ Len(wlast[1].meta) = 1
    /\ Len(wlast[2].meta) = 2
    /\ wlast[2].meta[1][1] = <<"b">>
    /\ wlast[2].meta[2][1] = <<"a">>
    /\ wlast[2].meta[2][2] = <<"x", NL, "y">>

(* C17: for every cgr_type, the derived type is one of 0..10; when it is in
   1..6 condense returns a union of molecules of one side for a reaction
   container and raises 'invalid data' for a merged reaction; for the types
   0, 7, 8, 9, 10 it returns the composed CGR; 'Splitter Error' and 'Merging
   need reagents and products' are never raised. *)
C17_CondenseDispatch ==
    condensed # << >> =>
        LET t == get_cgr_type(cgr_type).t
            call == condensed[1]
            r == call.result
        IN  /\ t \in 0..10
            /\ r.err \notin {"Splitter Error", "Merging need reagents and products"}
            /\ IF t \in 1..6
               THEN IF call.data = "merged"
                    THEN r.err = "invalid data"
                    ELSE /\ r.err = "none"
                         /\ r.kind = "union"
                         /\ Len(r.parts) = 1
                         /\ r.parts[1].side \in {"reagents", "products"}
               ELSE r.err = "none" /\ r.kind = "cgr" /\ Len(r.parts) = 2

C17_Witness ==
    /\ condensed # << >>
    /\ get_cgr_type(cgr_type).t = 9
    /\ condensed[1].data = "reaction"
    /\ condensed[1].result.kind = "cgr"
    /\ condensed[1].result.parts[1].pick = "exc"
    /\ condensed[1].result.parts[2].pick = "get"

\* the lines the file holds from byte position p on
LinesFrom(p) == IF LineAt(p) = 0 THEN {} ELSE LineAt(p)..NLines

(* C18: when seek has injected a target N, the next read enters the loop
   with count N, the record offset at the file position, the countdown at
   3, no metadata, no key, no parser, no record, skip mode off and no
   diagnostics pending, and the value it yields is made of lines read after
   the injection only and, when a ParseError, carries the count N and not
   more than the one diagnostic of its own failure. *)
C18_RestartsClean ==
    (mode = "indexed" /\ last.op = "seek" /\ last.sent)
    => LET h == AfterAck(data, fpos)
           y == Resume(data, None, fpos, already_seeked).y
       IN  /\ data.pc \in {"ack_init", "ack_err", "ack_rec"}
           /\ h.count = last.arg
           /\ h.pos = fpos
           /\ h.im = 3
           /\ h.meta = EmptyMeta
           /\ h.mkey = ""
           /\ ~h.parser
           /\ h.record = << >>
           /\ ~h.failkey
           /\ h.log = << >>
           /\ MadeOf(y) \subseteq LinesFrom(fpos)
           /\ y.t = "err" => y.count = last.arg /\ Len(y.log) <= 1

\* the generator is parked at the bare yield that acknowledges a target
AtAck == data.pc \in {"ack_init", "ack_err", "ack_rec"}

(* C19: on an indexed stream, right after a read that returned a value a
   seek to any valid index does not raise BlockingIOError, and in every
   state the already-seeked flag is set exactly when the generator is
   parked at the acknowledgement of a target no read has followed. *)
C19_SeekAfterReadAllowed ==
    mode = "indexed"
    => /\ (last.op = "read" /\ last.err = "none")
          => \A n \in Targets : SeekCall(n).err # "BlockingIOError"
       /\ already_seeked <=> AtAck

(* C20: on an indexed stream whose generator has returned, seek(n) returns
   without error for every valid n, and the k-th read after it yields what
   the (n+k)-th read of a stream constructed anew yields, up to the end of
   the stream. *)
C20_SeekRestartsAtEnd ==
    (mode = "indexed" /\ AtEnd)
    => \A n \in Targets :
           LET r == SeekCall(n)
           IN  /\ r.err = "none"
               /\ \A k \in 1..(NumRecords + 2) :
                      NthYield(r.g, r.fpos, r.seeked, k) = FreshYield(n + k)

(* C21: on an indexed file whose records all end with a delimiter line, a
   stream read without seek to end-of-stream has yielded one output per
   record: as many outputs as the table has entries less one, the k-th made
   of lines of the k-th record only and, when a ParseError, carrying the
   index k-1. *)
C21_OneOutputPerRecord ==
    (mode = "indexed" /\ AtEnd)
    => /\ Len(out) = Len(shifts) - 1
       /\ \A k \in 1..Len(out) :
              /\ MadeOf(out[k]) \subseteq RecStart(k)..RecEnd(k)
              /\ out[k].t = "err" => out[k].count = k - 1

(* C22: in every state, a seek call that raises (IndexError,
   BlockingIOError, NotImplementedError, or an error out of the generator)
   leaves the file position, the generator and the already-seeked flag as
   they were before the call. *)
C22_FailedSeekChangesNothing ==
    \A offset \in -1..Len(shifts) :
        LET r == SeekCall(offset)
        IN  r.err # "none"
            => /\ r.fpos = fpos
               /\ r.g = data
               /\ r.seeked = already_seeked

\* the metadata lines of the file of one record: those after the six lines
\* of its mol file and before its delimiter line
MetaLinesRead ==
    LET ls == readlines(wfile) IN SubSeq(ls, Len(readlines(MolFile)) + 1, Len(ls) - 1)

IsHeader(line) == head_match(line).matched

\* the key of the header line nearest before line j, << >> when none
KeyBefore(ls, j) ==
    LET hs == {h \in 1..(j - 1) : IsHeader(ls[h])}
    IN  IF hs = {} THEN << >>
        ELSE strip(head_match(ls[CHOOSE h \in hs : \A n \in hs : n <= h]).group)

\* the lines that are values of key k: not headers, not empty when trimmed,
\* the nearest header before them one for k
ValueLines(ls, k) ==
    {j \in 1..Len(ls) : ~IsHeader(ls[j]) /\ strip(ls[j]) # << >> /\ KeyBefore(ls, j) = k}

RECURSIVE Trimmed(_, _)
\* the trimmed texts of the lines numbered in S, in the order of the file
Trimmed(ls, S) ==
    IF S = {} THEN << >>
    ELSE LET j == CHOOSE m \in S : \A n \in S : m <= n
         IN  <<strip(ls[j])>> \o Trimmed(ls, S \ {j})

\* the keys the headers of the lines name, the empty key left out
KeysNamed(ls) ==
    {strip(head_match(ls[h]).group) : h \in {n \in 1..Len(ls) : IsHeader(ls[n])}} \ {<< >>}

(* C23: a record read to its delimiter is yielded with, for each key that
   has a value line, the trimmed non-empty lines between the headers of that
   key and the next header or the delimiter, all groups of the key in the
   order of the file, joined into one string; lines before the first header
   are in no value, a key without value lines is absent, and a header whose
   key is blank names no key. *)
C23_MetaValuesInOrder ==
    wkind = "read"
    => LET ls == MetaLinesRead
           keys == {k \in KeysNamed(ls) : ValueLines(ls, k) # {}}
       IN  /\ Len(parsed) = 1
           /\ parsed[1].t = "obj"
           /\ DOMAIN parsed[1].meta = keys
           /\ \A k \in keys :
                  parsed[1].meta[k] = Join(<<NL>>, Trimmed(ls, ValueLines(ls, k)))

\* a value line before any header, then two groups of one key, a value with
\* white space around it in the first
C23_Witness ==
    /\ wkind = "read"
    /\ LET ls == MetaLinesRead
       IN  /\ Len(ls) = 5
           /\ ~IsHeader(ls[1]) /\ strip(ls[1]) # << >>
           /\ IsHeader(ls[2]) /\ IsHeader(ls[4])
           /\ ls[3] = <<" ", "y", " ", NL>>
    /\ DOMAIN parsed[1].meta = {<<"a">>}
    /\ parsed[1].meta[<<"a">>] = <<"y", NL, "x">>

\* the format line of the i-th record: its fourth line
FormatLineOf(i) == RecStart(i) + 3

\* record i is one the claim lets fail on its format line: no marker, or the
\* first marker with no atoms on a stream that does not ignore errors
FailsOnFormat(i) ==
    \/ layout.recs[i] = "BF"
    \/ layout.recs[i] = "GV" /\ ~layout.ignore

(* C24: reading without seek a file of records with a V2000 line, a V2000
   line with no atoms, a V3000 line or a line with neither marker: a record
   with no atoms is yielded as an object at its delimiter, its mol block the
   lines after the format line, when the stream ignores errors; when it
   does not, and for a line with neither marker, the read returns at the
   format line a ParseError with the record's index and empty metadata, and
   the rest of the record is skipped: the next output is the next
   record's. *)
C24_FormatLineDispatch ==
    /\ \A i \in 1..Len(out) :
           IF FailsOnFormat(i)
           THEN /\ out[i].t = "err"
                /\ out[i].count = i - 1
                /\ out[i].meta = EmptyMeta
                /\ out[i].log = <<<<"line", FormatLineOf(i)>>>>
           ELSE /\ ObjectOf(out[i], i)
                /\ layout.recs[i] = "GV"
                   => out[i].mol = <<FormatLineOf(i) + 1, FormatLineOf(i) + 2>>
    /\ (last.op = "read" /\ last.val.t = "err") => JustRead = FormatLineOf(Len(out))
    /\ (last.op = "read" /\ last.val.t = "obj") => JustRead = RecEnd(Len(out))
    /\ AtEnd => Len(out) = NumRecords

\* a record with no atoms read as an object by a stream that ignores errors,
\* after a record without marker that failed
C24_Witness ==
    /\ layout.ignore
    /\ layout.recs = <<"BF", "GV", "G">>
    /\ Len(out) = 2
    /\ out[1].t = "err"
    /\ out[2].t = "obj"
    /\ last.op = "read"

\* the next read moves the file position forward or leaves the generator
\* returned
ReadAdvances ==
    LET r == Resume(data, None, fpos, already_seeked)
    IN  r.fpos > fpos \/ r.g.pc = "done"

(* C25: a stream driven by reads alone reaches end-of-stream; in every
   state the next read moves the file position forward by at least one line
   or leaves the generator returned; and once it has returned it stays
   returned, every further read raising StopIteration. *)
C25_ReadsTerminate ==
    /\ <>AtEnd
    /\ []ReadAdvances
    /\ [](AtEnd => [](AtEnd /\ (last.op = "read" => last.err = "StopIteration")))

\* three records and an unterminated one read, then end-of-stream reported
C25_Witness ==
    /\ AtEnd
    /\ NumRecords = 3
    /\ layout.tail = "open"
    /\ Len(out) = 4
    /\ last.op = "read"
    /\ last.err = "StopIteration"

\* the conversion of d succeeds
Converted(d) == ~ConvertRaises(d)

(* C26: after any calls of write, some of them failing in the structure
   conversion, the file holds the outputs of the calls that succeeded, one
   after the other, and nothing else: a failed call has left the file as it
   was, and the calls after it write what they write without it. *)
C26_FailedWriteWritesNothing ==
    LET done == SelectSeq(wlast, Converted)
    IN  wfile = Flat([i \in 1..Len(done) |-> WriteText(wkind, done[i])])

\* a call that failed, then a call that succeeded, on the V3000 writer
C26_Witness ==
    /\ wkind = "ESDFWrite"
    /\ Len(wlast) = 2
    /\ ConvertRaises(wlast[1])
    /\ wlast[1].meta # << >>
    /\ Converted(wlast[2])
    /\ wlast[2].meta # << >>
    /\ wfile = ESDFWriteText(wlast[2])

====
